---- MODULE Spec2Model ----
(***************************************************************************)
(* A model of the LINE customer-service bot: the agents                    *)
(* (app/agents), the router AgentService (app/services/agent_service.py),  *)
(* the conversation store MemoryStorage (app/utils/storage.py), the        *)
(* webhook handler LineBotService (app/services/linebot_service.py) and    *)
(* the service singleton (app/api/v1/linebot.py).                          *)
(*                                                                         *)
(* Python strings are sequences of one-character strings, so that          *)
(* startswith, slicing and split are computed as Python computes them.     *)
(* A fixed text of the program (an error message, "Echo: ") is a single    *)
(* multi-character element: no user input contains it.                     *)
(***************************************************************************)
EXTENDS Integers, Sequences, FiniteSets, TLC

VARIABLES
    agents,             \* AgentService.agents: the registry, in insertion order
    api_key,            \* settings.OPENAI_API_KEY is set
    init,               \* progress of AgentService.initialize
    req,                \* the current (or last) call of AgentService.process_message
    conversations,      \* MemoryStorage.conversations
    user_conversations, \* MemoryStorage.user_conversations
    store_log,          \* observation: the store operations called so far
    events,             \* the webhook text events and their handler tasks
    replies,            \* observation: the calls of line_api.reply_message, by reply token
    line_service_instance, \* api/v1/linebot.py: _line_service_instance
    constructed,        \* observation: how many LineBotService were constructed
    requests            \* the HTTP requests that depend on get_line_service

vars == <<agents, api_key, init, req, conversations, user_conversations,
          store_log, events, replies, line_service_instance, constructed, requests>>

router_vars == <<agents, api_key, init, req>>
store_vars  == <<conversations, user_conversations, store_log>>
hook_vars   == <<events, replies>>
service_vars == <<line_service_instance, constructed, requests>>

(***************************************************************************)
(* Strings                                                                 *)
(***************************************************************************)
Sp == <<" ">>
AgentPrefix == <<"/", "a", "g", "e", "n", "t", " ">>
PrefixLen == 7
AGNO == <<"a", "g", "n", "o">>
ECHO == <<"e", "c", "h", "o">>
X    == <<"x">>
XX   == <<"x", " ", "x">>

\* the fixed texts of the program
EchoText         == <<"Echo: ">>
NotFoundText     == <<"[agent not found]: ">>
FormatErrorText  == <<"[bad command format; use /agent {agent_id} {message}]">>
RouterApology    == <<"[sorry, an error occurred while handling your message]">>
NoAgentsText     == <<"[sorry, no agent is available]">>
NotReadyText     == <<"[agent not initialized yet, try again later]">>
AgentApology     == <<"[sorry, an error occurred while handling your request, try again later]">>
HandlerApology   == <<"[sorry, I cannot understand your request for now, try again later]">>

\* message.startswith(p)
startswith(s, p) == Len(s) >= Len(p) /\ SubSeq(s, 1, Len(p)) = p

\* message[n:]
slice_from(s, n) == SubSeq(s, n + 1, Len(s))

\* s.split(" ", 1): at most one split, at the first space
split_once_mutant_last(s) ==
    IF \E i \in 1..Len(s) : s[i] = " "
    THEN LET i == CHOOSE k \in 1..Len(s) :
                      s[k] = " " /\ \A j \in (k+1)..Len(s) : s[j] # " "
         IN  <<SubSeq(s, 1, i - 1), SubSeq(s, i + 1, Len(s))>>
    ELSE <<s>>

split_once(s) ==
    IF \E i \in 1..Len(s) : s[i] = " "
    THEN LET i == CHOOSE k \in 1..Len(s) :
                      s[k] = " " /\ \A j \in 1..(k-1) : s[j] # " "
         IN  <<SubSeq(s, 1, i - 1), SubSeq(s, i + 1, Len(s))>>
    ELSE <<s>>

(***************************************************************************)
(* Agents                                                                  *)
(***************************************************************************)
\* an agent instance: its class and, for SimpleAgnoAgent, self.agent
EchoAgent       == [cls |-> "EchoAgent", agent |-> "None"]
BaseAgent       == [cls |-> "BaseAgent", agent |-> "None"]
SimpleAgnoAgent == [cls |-> "SimpleAgnoAgent", agent |-> "None"]
ReadyAgnoAgent  == [cls |-> "SimpleAgnoAgent", agent |-> "Agent"]

NoResponse == [content |-> <<>>, confidence |-> "none"]
NoBackend  == [kind |-> "none", text |-> <<>>]

\* what agent.run can do: return a RunResponse with a text, return one whose
\* content is no string, or raise
BackendTexts == {<<"[backend text 1]">>, <<"[backend text 2]">>}
BackendOutcomes ==
    {[kind |-> "text", text |-> t] : t \in BackendTexts}
        \cup {[kind |-> "nonstr", text |-> <<>>], [kind |-> "raise", text |-> <<>>]}

EchoAgent_process(user_id, message) ==
    [content |-> EchoText \o message, confidence |-> "1.0"]

\* SimpleAgnoAgent.process after the backend call came back, with the try block
\* ending before AgentResponse(content=...) is built
SimpleAgnoAgent_finish_mutant_unguarded(backend) ==
    CASE backend.kind = "text" ->
            [state |-> "returned",
             response |-> [content |-> backend.text, confidence |-> "0.9"]]
      [] backend.kind = "nonstr" ->
            [state |-> "raised", response |-> NoResponse]
      [] backend.kind = "raise" ->
            [state |-> "returned",
             response |-> [content |-> AgentApology, confidence |-> "0.0"]]

\* SimpleAgnoAgent.process after the backend call came back
SimpleAgnoAgent_finish(backend) ==
    IF backend.kind = "text"
    THEN [state |-> "returned",
          response |-> [content |-> backend.text, confidence |-> "0.9"]]
    ELSE \* agent.run raised, or AgentResponse(content=...) failed validation:
         \* both inside the try, and `except Exception` returns the apology
         [state |-> "returned",
          response |-> [content |-> AgentApology, confidence |-> "0.0"]]

\* agent.process up to its first suspension: it returned, raised, or awaits
\* run_in_executor
Agent_process(inst, user_id, message) ==
    CASE inst.cls = "EchoAgent" ->
            [state |-> "returned", response |-> EchoAgent_process(user_id, message)]
      [] inst.cls = "BaseAgent" ->
            [state |-> "raised", response |-> NoResponse]
      [] inst.cls = "SimpleAgnoAgent" ->
            IF inst.agent = "None"
            THEN [state |-> "returned",
                  response |-> [content |-> NotReadyText, confidence |-> "0.0"]]
            ELSE [state |-> "awaiting", response |-> NoResponse]

(***************************************************************************)
(* The registry                                                            *)
(***************************************************************************)
Registered(reg, agent_id) == \E i \in 1..Len(reg) : reg[i].id = agent_id

Lookup(reg, agent_id) ==
    reg[CHOOSE i \in 1..Len(reg) : reg[i].id = agent_id].inst

\* self.agents[agent_id] = agent: a new key goes last, an old key keeps its place
register_agent(reg, agent_id, agent) ==
    IF Registered(reg, agent_id)
    THEN [i \in 1..Len(reg) |->
            IF reg[i].id = agent_id THEN [id |-> agent_id, inst |-> agent] ELSE reg[i]]
    ELSE Append(reg, [id |-> agent_id, inst |-> agent])

\* AgentService.__init__: self.agents = {} and _register_default_agents
AgentService_init ==
    register_agent(register_agent(<<>>, ECHO, EchoAgent), AGNO, SimpleAgnoAgent)

(***************************************************************************)
(* AgentService.process_message                                            *)
(***************************************************************************)
DefaultAgentId == AGNO

Reply(text) ==
    [kind |-> "reply", agent_id |-> <<>>, actual_message |-> <<>>,
     guarded |-> FALSE, text |-> text]

Invoke(agent_id, actual_message, guarded) ==
    [kind |-> "invoke", agent_id |-> agent_id, actual_message |-> actual_message,
     guarded |-> guarded, text |-> <<>>]

\* the command with an empty message taken for a malformed command
override_command_mutant_strict(reg, message) ==
    LET parts == split_once(slice_from(message, PrefixLen))
    IN  IF Len(parts) = 2 /\ parts[2] # <<>>
        THEN IF Registered(reg, parts[1])
             THEN Invoke(parts[1], parts[2], FALSE)
             ELSE Reply(NotFoundText \o parts[1])
        ELSE Reply(FormatErrorText)

\* the "/agent {agent_id} {message}" command, lines 61-73
override_command(reg, message) ==
    LET parts == split_once(slice_from(message, PrefixLen))
    IN  IF Len(parts) = 2
        THEN IF Registered(reg, parts[1])
             THEN Invoke(parts[1], parts[2], FALSE)
             ELSE Reply(NotFoundText \o parts[1])
        ELSE Reply(FormatErrorText)

\* the default path trying echo before the default id
default_route_mutant_echo_first(reg, message) ==
    IF Registered(reg, ECHO)
    THEN Invoke(ECHO, message, TRUE)
    ELSE IF Registered(reg, DefaultAgentId)
         THEN Invoke(DefaultAgentId, message, TRUE)
         ELSE Reply(NoAgentsText)

\* the default path, lines 75-97: both calls are inside try/except Exception
default_route(reg, message) ==
    IF Registered(reg, DefaultAgentId)
    THEN Invoke(DefaultAgentId, message, TRUE)
    ELSE IF Registered(reg, ECHO)
         THEN Invoke(ECHO, message, TRUE)
         ELSE Reply(NoAgentsText)

\* an unknown id of a command handed to the default path
process_message_route_mutant_fallback(reg, message) ==
    IF startswith(message, AgentPrefix)
    THEN LET d == override_command(reg, message)
         IN  IF d.kind = "reply" /\ d.text # FormatErrorText
             THEN default_route(reg, message)
             ELSE d
    ELSE default_route(reg, message)

\* which branch of process_message a message takes
process_message_route(reg, message) ==
    IF startswith(message, AgentPrefix)
    THEN override_command(reg, message)
    ELSE default_route(reg, message)

IdleReq ==
    [pc |-> "idle", user_id |-> "", message |-> <<>>, invoked |-> <<>>,
     guarded |-> FALSE, response |-> NoResponse, backend |-> NoBackend,
     result |-> <<>>]

\* `await agent.process(...)` came back (returned or raised) in a call r
process_message_after(r, state, response) ==
    CASE state = "returned" ->
            [r EXCEPT !.pc = "returned", !.response = response,
                      !.result = response.content]
      [] state = "raised" /\ r.guarded ->
            [r EXCEPT !.pc = "returned", !.result = RouterApology]
      [] state = "raised" /\ ~r.guarded ->
            [r EXCEPT !.pc = "raised"]
      [] state = "awaiting" ->
            [r EXCEPT !.pc = "awaiting"]

\* process_message from its entry to its return, its raise, or its suspension
\* in the agent's backend call
process_message_begin(reg, user_id, message) ==
    LET d == process_message_route(reg, message)
        r == [IdleReq EXCEPT !.user_id = user_id, !.message = message]
    IN  IF d.kind = "reply"
        THEN [r EXCEPT !.pc = "returned", !.result = d.text]
        ELSE LET a == Agent_process(Lookup(reg, d.agent_id), user_id, d.actual_message)
             IN  process_message_after(
                     [r EXCEPT !.guarded = d.guarded,
                               !.invoked = <<[agent_id |-> d.agent_id,
                                              user_id |-> user_id,
                                              message |-> d.actual_message]>>],
                     a.state, a.response)

\* the backend call of a suspended call r came back
process_message_resume(r, backend) ==
    LET f == SimpleAgnoAgent_finish(backend)
    IN  process_message_after([r EXCEPT !.backend = backend], f.state, f.response)

(***************************************************************************)
(* Inputs of the router                                                    *)
(***************************************************************************)
Users == {"U1", "U2"}

MaxRest == 2

\* "/agent {agent_id} {message}": the id part, the separator and the rest, each
\* of which may be missing
IdParts == {<<>>, AGNO, ECHO, X, XX}
Seps    == {<<>>, Sp}
RestTokens == {Sp, X, AgentPrefix}

RECURSIVE Concats(_)
Concats(n) ==
    IF n = 0 THEN {<<>>}
    ELSE LET shorter == Concats(n - 1)
         IN  shorter \cup {s \o t : s \in shorter, t \in RestTokens}

Rests == Concats(MaxRest)

\* what follows "/agent " in a command
Bodies == {a \o sep \o rest : a \in IdParts, sep \in Seps, rest \in Rests}

\* "/agent" without the space of the prefix
ShortPrefix == SubSeq(AgentPrefix, 1, PrefixLen - 1)

\* the messages: commands, and texts that are no command
Messages ==
    {AgentPrefix \o b : b \in Bodies}
        \cup Bodies \cup {ShortPrefix, ShortPrefix \o X}

\* registries the router is applied to: each of the two default ids absent,
\* holding its default class or holding an agent whose process raises, then
\* possibly one more registration
EchoSlot  == {<<>>, <<[id |-> ECHO, inst |-> EchoAgent]>>,
                    <<[id |-> ECHO, inst |-> BaseAgent]>>}
AgnoSlot  == {<<>>, <<[id |-> AGNO, inst |-> SimpleAgnoAgent]>>,
                    <<[id |-> AGNO, inst |-> ReadyAgnoAgent]>>,
                    <<[id |-> AGNO, inst |-> BaseAgent]>>}
ExtraSlot == {<<>>, <<[id |-> X, inst |-> EchoAgent]>>,
                    <<[id |-> X, inst |-> BaseAgent]>>,
                    <<[id |-> XX, inst |-> EchoAgent]>>}
RegistryInputs == {e \o a \o x : e \in EchoSlot, a \in AgnoSlot, x \in ExtraSlot}


(***************************************************************************)
(* AgentService.initialize and the agents' lifecycle                       *)
(***************************************************************************)
MaxExtra == 1

\* the agents register_agent may be given, as constructed
NewAgents == {EchoAgent, BaseAgent, SimpleAgnoAgent}

\* the registry of a service: the constructor's, then up to n calls of
\* register_agent (ids old and new)
RECURSIVE RegistriesAfter(_)
RegistriesAfter(n) ==
    IF n = 0 THEN {AgentService_init}
    ELSE LET before == RegistriesAfter(n - 1)
         IN  before \cup {register_agent(reg, id, a) :
                             reg \in before, id \in {AGNO, ECHO, X}, a \in NewAgents}

\* what can happen inside _init_agno_agent: the agno package is missing, the
\* Agent constructor raises, or it succeeds
InitOutcomes == {"import_error", "ctor_error", "ok"}

\* _init_agno_agent with no try/except around the construction
init_agno_agent_mutant_raises(key, outcome) ==
    CASE outcome = "import_error" -> [raised |-> TRUE, agent |-> "None"]
      [] ~key -> [raised |-> FALSE, agent |-> "None"]
      [] outcome = "ctor_error" -> [raised |-> TRUE, agent |-> "None"]
      [] OTHER -> [raised |-> FALSE, agent |-> "Agent"]

\* SimpleAgnoAgent._init_agno_agent, run in the executor: the value it leaves
\* in self.agent, and whether it raises
init_agno_agent(key, outcome) ==
    CASE outcome = "import_error" -> [raised |-> FALSE, agent |-> "None"]
      [] ~key -> [raised |-> FALSE, agent |-> "None"]
      [] outcome = "ctor_error" -> [raised |-> FALSE, agent |-> "None"]
      [] OTHER -> [raised |-> FALSE, agent |-> "Agent"]

\* the first agent from position i on whose initialize suspends (a
\* SimpleAgnoAgent: run_in_executor); BaseAgent.initialize is `pass`
RECURSIVE NextSuspending(_, _)
NextSuspending(reg, i) ==
    IF i > Len(reg) THEN i
    ELSE IF reg[i].inst.cls = "SimpleAgnoAgent" THEN i
         ELSE NextSuspending(reg, i + 1)

\* the loop of AgentService.initialize from position i to its next suspension
\* or to its end
initialize_loop(reg, i, called) ==
    LET j == NextSuspending(reg, i)
        upto == IF j > Len(reg) THEN Len(reg) ELSE j
    IN  [pc |-> IF j > Len(reg) THEN "done" ELSE "in_executor",
         at |-> j,
         raised |-> FALSE,
         called |-> called \o [k \in 1..(upto - i + 1) |-> reg[i + k - 1].id]]

NoInit == [pc |-> "new", at |-> 0, raised |-> FALSE, called |-> <<>>]

\* AgentService.initialize is called (by LineBotService.initialize)
initialize_begin ==
    /\ init.pc = "new"
    /\ init' = initialize_loop(agents, 1, <<>>)
    /\ UNCHANGED <<agents, api_key, req, store_vars, hook_vars, service_vars>>

\* the executor thread runs _init_agno_agent of the agent being initialized
init_agno_thread(outcome) ==
    /\ init.pc = "in_executor"
    /\ LET r == init_agno_agent(api_key, outcome)
       IN  /\ agents' = [agents EXCEPT ![init.at].inst.agent = r.agent]
           /\ init' = [init EXCEPT !.pc = "thread_done", !.raised = r.raised]
    /\ UNCHANGED <<api_key, req, store_vars, hook_vars, service_vars>>

\* `await loop.run_in_executor(...)` comes back in AgentService.initialize: an
\* exception of the thread is raised here and ends the loop
initialize_resume ==
    /\ init.pc = "thread_done"
    /\ init' = IF init.raised
               THEN [init EXCEPT !.pc = "raised"]
               ELSE initialize_loop(agents, init.at + 1, init.called)
    /\ UNCHANGED <<agents, api_key, req, store_vars, hook_vars, service_vars>>

\* a few messages for the calls made while the agents come up
FewMessages ==
    {X, AgentPrefix \o AGNO \o Sp \o X, AgentPrefix \o ECHO \o Sp \o X,
     AgentPrefix \o X \o Sp \o X}

\* a further call of process_message, once the last one is over
process_message_again(user_id, message) ==
    /\ req.pc # "awaiting"
    /\ req' = process_message_begin(agents, user_id, message)
    /\ UNCHANGED <<agents, api_key, init, store_vars, hook_vars, service_vars>>

NoStoreLog ==
    [op |-> "none", user_id |-> "", conversation_id |-> 0, value |-> 0,
     raised |-> FALSE, forced |-> {}, added |-> <<>>]

StoreInit ==
    /\ conversations = <<>>
    /\ user_conversations = <<>>
    /\ store_log = NoStoreLog

HookInit ==
    /\ events = <<>>
    /\ replies = <<>>

\* the service singleton is up: one LineBotService was constructed
ServiceUp ==
    /\ line_service_instance = "LineBotService"
    /\ constructed = 1
    /\ requests = <<>>

Init ==
    /\ agents \in RegistryInputs
    /\ api_key \in {TRUE}
    /\ init = NoInit
    /\ req = IdleReq
    /\ StoreInit
    /\ HookInit
    /\ ServiceUp

\* a call of process_message(user_id, message), as POST /test/agent makes it;
\* the router keeps no state between calls, so one call per behaviour is drawn
process_message(user_id, message) ==
    /\ req.pc = "idle"
    /\ req' = process_message_begin(agents, user_id, message)
    /\ UNCHANGED <<agents, api_key, init, store_vars, hook_vars, service_vars>>

\* the backend call comes back and the agent gives up on itself when it failed
backend_returns_mutant_marks_dead(backend) ==
    /\ req.pc = "awaiting"
    /\ req' = process_message_resume(req, backend)
    /\ agents' = IF backend.kind = "text" THEN agents
                 ELSE [i \in 1..Len(agents) |->
                         IF agents[i].id = req.invoked[1].agent_id
                         THEN [agents[i] EXCEPT !.inst.agent = "None"]
                         ELSE agents[i]]
    /\ UNCHANGED <<api_key, init, store_vars, hook_vars, service_vars>>

\* the executor finishes self.agent.run(...)
backend_returns(backend) ==
    /\ req.pc = "awaiting"
    /\ req' = process_message_resume(req, backend)
    /\ UNCHANGED <<agents, api_key, init, store_vars, hook_vars, service_vars>>

Next ==
    \/ \E u \in Users, m \in Messages : process_message(u, m)
    \/ \E b \in BackendOutcomes : backend_returns(b)

Spec == Init /\ [][Next]_vars

AgentInit ==
    /\ agents \in RegistriesAfter(MaxExtra)
    /\ api_key \in BOOLEAN
    /\ init = NoInit
    /\ req = IdleReq
    /\ StoreInit
    /\ HookInit
    /\ ServiceUp

AgentNext ==
    \/ initialize_begin
    \/ \E o \in InitOutcomes : init_agno_thread(o)
    \/ initialize_resume
    \/ \E u \in Users, m \in FewMessages : process_message_again(u, m)
    \/ \E b \in BackendOutcomes : backend_returns(b)

AgentSpec == AgentInit /\ [][AgentNext]_vars

(***************************************************************************)
(* MemoryStorage: the conversation store                                   *)
(*                                                                         *)
(* A conversation id (a uuid4) is the conversation's position in           *)
(* `conversations`: every new id is fresh. A store st is the pair of the   *)
(* two dictionaries; an operation gives the store after it and its return  *)
(* value (a conversation id, a message position, 1/0 for True/False, 0 for *)
(* None).                                                                  *)
(***************************************************************************)
SenderTypes == {"user", "bot", "agent"}

Store(convs, ucs) == [conversations |-> convs, user_conversations |-> ucs]

Result(st, value, raised) == [store |-> st, value |-> value, raised |-> raised]

\* Conversation(user_id=user_id): active, no end time, no messages
NewConversation(user_id) ==
    [user_id |-> user_id, status |-> "active", end_time |-> "None", messages |-> <<>>]

\* create_conversation that does not enter the new id in the user's list
create_conversation_mutant_unlisted(st, user_id) ==
    Result(Store(Append(st.conversations, NewConversation(user_id)),
                 st.user_conversations),
           Len(st.conversations) + 1, FALSE)

\* MemoryStorage.create_conversation
create_conversation(st, user_id) ==
    LET id == Len(st.conversations) + 1
        convs == Append(st.conversations, NewConversation(user_id))
        ucs == IF user_id \in DOMAIN st.user_conversations
               THEN [st.user_conversations EXCEPT ![user_id] = Append(@, id)]
               ELSE st.user_conversations @@ (user_id :> <<id>>)
    IN  Result(Store(convs, ucs), id, FALSE)

\* MemoryStorage.get_conversation: self.conversations.get(conversation_id)
get_conversation(st, conversation_id) ==
    conversation_id \in 1..Len(st.conversations)

\* the user's conversations that are active, as positions in the user's list
ActivePositions(st, user_id) ==
    IF user_id \in DOMAIN st.user_conversations
    THEN {k \in 1..Len(st.user_conversations[user_id]) :
             LET id == st.user_conversations[user_id][k]
             IN  get_conversation(st, id) /\ st.conversations[id].status = "active"}
    ELSE {}

Max(S) == CHOOSE x \in S : \A y \in S : y <= x
Min(S) == CHOOSE x \in S : \A y \in S : x <= y

\* get_active_conversation scanning the user's list from its oldest entry
get_active_conversation_mutant_oldest(st, user_id) ==
    IF ActivePositions(st, user_id) # {}
    THEN Result(st, st.user_conversations[user_id][Min(ActivePositions(st, user_id))],
                FALSE)
    ELSE create_conversation(st, user_id)

\* get_active_conversation never returning from its loop
get_active_conversation_mutant_always_creates(st, user_id) ==
    create_conversation(st, user_id)

\* MemoryStorage.get_active_conversation: the first active conversation in
\* reversed(user_conversations[user_id]), or a new one
get_active_conversation(st, user_id) ==
    IF ActivePositions(st, user_id) # {}
    THEN Result(st, st.user_conversations[user_id][Max(ActivePositions(st, user_id))],
                FALSE)
    ELSE create_conversation(st, user_id)

\* Message(conversation_id=..., content=..., sender_type=...)
NewMessage(conversation_id, content, sender_type) ==
    [conversation_id |-> conversation_id, content |-> content,
     sender_type |-> sender_type]

\* add_message indexing the dictionary: a KeyError for an unknown id
add_message_mutant_raises(st, conversation_id, content, sender_type) ==
    IF ~get_conversation(st, conversation_id)
    THEN Result(st, 0, TRUE)
    ELSE IF sender_type \notin SenderTypes
         THEN Result(st, 0, TRUE)
         ELSE LET convs == [st.conversations EXCEPT ![conversation_id].messages =
                               Append(@, NewMessage(conversation_id, content, sender_type))]
              IN  Result(Store(convs, st.user_conversations),
                         Len(convs[conversation_id].messages), FALSE)

\* add_message putting the message at the head of the log
add_message_mutant_prepends(st, conversation_id, content, sender_type) ==
    IF ~get_conversation(st, conversation_id)
    THEN Result(st, 0, FALSE)
    ELSE IF sender_type \notin SenderTypes
         THEN Result(st, 0, TRUE)
         ELSE LET convs == [st.conversations EXCEPT ![conversation_id].messages =
                               <<NewMessage(conversation_id, content, sender_type)>> \o @]
              IN  Result(Store(convs, st.user_conversations),
                         Len(convs[conversation_id].messages), FALSE)

\* MemoryStorage.add_message and Conversation.add_message: None for an unknown
\* id; Message(...) raises a validation error for a sender type outside the
\* Literal; else the message is appended
add_message(st, conversation_id, content, sender_type) ==
    IF ~get_conversation(st, conversation_id)
    THEN Result(st, 0, FALSE)
    ELSE IF sender_type \notin SenderTypes
         THEN Result(st, 0, TRUE)
         ELSE LET convs == [st.conversations EXCEPT ![conversation_id].messages =
                               Append(@, NewMessage(conversation_id, content, sender_type))]
              IN  Result(Store(convs, st.user_conversations),
                         Len(convs[conversation_id].messages), FALSE)

\* MemoryStorage.close_conversation and Conversation.close
close_conversation(st, conversation_id) ==
    IF ~get_conversation(st, conversation_id)
    THEN Result(st, 0, FALSE)
    ELSE Result(Store([st.conversations EXCEPT ![conversation_id].status = "closed",
                                               ![conversation_id].end_time = "stamped"],
                      st.user_conversations),
                1, FALSE)

TheStore == Store(conversations, user_conversations)

\* the number of messages the store holds
RECURSIVE CountMessages(_, _)
CountMessages(convs, n) ==
    IF n = 0 THEN 0 ELSE Len(convs[n].messages) + CountMessages(convs, n - 1)

HasActive(st, user_id) == ActivePositions(st, user_id) # {}

(***************************************************************************)
(* The store under direct calls of its operations                          *)
(***************************************************************************)
MaxConvs == 2
MaxMsgs == 2

StoreContents == {X, ECHO}
SenderInputs == {"user", "bot", "system"}
\* known ids and one that no conversation has
ConvIdInputs == 1..(MaxConvs + 1)

\* the add_message calls that gave a Message, per conversation id, in call
\* order, with one more
Added(added, conversation_id, content, sender_type) ==
    LET call == [content |-> content, sender_type |-> sender_type]
    IN  IF conversation_id \in DOMAIN added
        THEN [added EXCEPT ![conversation_id] = Append(@, call)]
        ELSE added @@ (conversation_id :> <<call>>)

\* the store after an operation, and what the call was and gave
StoreStep(op, user_id, conversation_id, content, sender_type, r) ==
    /\ conversations' = r.store.conversations
    /\ user_conversations' = r.store.user_conversations
    /\ store_log' = [op |-> op, user_id |-> user_id,
                     conversation_id |-> conversation_id,
                     value |-> r.value, raised |-> r.raised,
                     forced |-> store_log.forced \cup
                        IF op = "create_conversation" /\ HasActive(TheStore, user_id)
                        THEN {user_id} ELSE {},
                     added |-> IF op = "add_message" /\ ~r.raised /\ r.value # 0
                               THEN Added(store_log.added, conversation_id,
                                          content, sender_type)
                               ELSE store_log.added]
    /\ UNCHANGED <<router_vars, hook_vars, service_vars>>

call_create_conversation(user_id) ==
    /\ Len(conversations) < MaxConvs
    /\ StoreStep("create_conversation", user_id, 0, <<>>, "",
                 create_conversation(TheStore, user_id))

call_get_active_conversation(user_id) ==
    /\ Len(conversations) < MaxConvs \/ HasActive(TheStore, user_id)
    /\ StoreStep("get_active_conversation", user_id, 0, <<>>, "",
                 get_active_conversation(TheStore, user_id))

call_add_message(conversation_id, content, sender_type) ==
    /\ CountMessages(conversations, Len(conversations)) < MaxMsgs
    /\ StoreStep("add_message", "", conversation_id, content, sender_type,
                 add_message(TheStore, conversation_id, content, sender_type))

call_close_conversation(conversation_id) ==
    /\ conversation_id \in ConvIdInputs
    /\ StoreStep("close_conversation", "", conversation_id, <<>>, "",
                 close_conversation(TheStore, conversation_id))

StoreSpecInit ==
    /\ agents = AgentService_init
    /\ api_key = TRUE
    /\ init = NoInit
    /\ req = IdleReq
    /\ conversations = <<>>
    /\ user_conversations = <<>>
    /\ store_log = NoStoreLog
    /\ HookInit
    /\ ServiceUp

StoreNext ==
    \/ \E u \in Users : call_create_conversation(u)
    \/ \E u \in Users : call_get_active_conversation(u)
    \/ \E c \in ConvIdInputs, t \in StoreContents, k \in SenderInputs :
          call_add_message(c, t, k)
    \/ \E c \in ConvIdInputs : call_close_conversation(c)

StoreSpec == StoreSpecInit /\ [][StoreNext]_vars

(***************************************************************************)
(* LineBotService: the webhook handler                                     *)
(*                                                                         *)
(* handle_text_message hands each text event to a task of its own          *)
(* (asyncio.create_task); the task runs _async_process_text_message, which *)
(* suspends only inside `await process_message(...)`. An event's reply     *)
(* token is its position in `events`.                                      *)
(***************************************************************************)
MaxEvents == 2

\* line_api.reply_message returns, or raises ApiException
DeliveryOutcomes == {"ok", "ApiException"}

\* the last entry of each log of the user's conversations
LastEntries(st, user_id) ==
    {st.conversations[c].messages[Len(st.conversations[c].messages)] :
        c \in {k \in 1..Len(st.conversations) :
                 /\ st.conversations[k].user_id = user_id
                 /\ st.conversations[k].messages # <<>>}}

\* reply_text(reply_token, text): the call is noted under its reply token,
\* with the last entries of the logs of the event's user at the time
\* line_api.reply_message is called
Delivered(st, rs, reply_token, text, outcome) ==
    [rs EXCEPT ![reply_token] =
        Append(@, [text |-> text, outcome |-> outcome,
                   logged |-> LastEntries(st, events[reply_token].user_id)])]

Handled(st, rs, pc) == [store |-> st, replies |-> rs, pc |-> pc]

\* the except block that only logs
handler_except_mutant_silent(st, rs, e, ev, d) ==
    Handled(st, rs, "done")

\* the except block recording the apology in a conversation of its own
handler_except_mutant_creates(st, rs, e, ev, d) ==
    LET rs1 == Delivered(st, rs, e, HandlerApology, d)
    IN  IF d # "ok"
        THEN Handled(st, rs1, "failed")
        ELSE LET g == create_conversation(st, ev.user_id)
                 a == add_message(g.store, g.value, HandlerApology, "bot")
             IN  Handled(a.store, rs1, "done")

\* the except block of _async_process_text_message, lines 132-144: reply the
\* apology (an ApiException here leaves the task), then record it
handler_except(st, rs, e, ev, d) ==
    LET rs1 == Delivered(st, rs, e, HandlerApology, d)
    IN  IF d # "ok"
        THEN Handled(st, rs1, "failed")
        ELSE LET g == get_active_conversation(st, ev.user_id)
                 a == add_message(g.store, g.value, HandlerApology, "bot")
             IN  Handled(a.store, rs1, "done")

\* lines 126-130 with the reply sent before the response is recorded
handler_reply_mutant_reply_first(st, rs, e, ev, response, d1, d2) ==
    LET a == add_message(st, ev.conversation_id, response, "bot")
        rs1 == Delivered(st, rs, e, response, d1)
    IN  IF d1 = "ok"
        THEN Handled(a.store, rs1, "done")
        ELSE handler_except(st, rs1, e, ev, d2)

\* lines 126-130: record the response, reply it; an ApiException of reply_text
\* is caught by the except block
handler_reply(st, rs, e, ev, response, d1, d2) ==
    LET a == add_message(st, ev.conversation_id, response, "bot")
        rs1 == Delivered(a.store, rs, e, response, d1)
    IN  IF d1 = "ok"
        THEN Handled(a.store, rs1, "done")
        ELSE handler_except(a.store, rs1, e, ev, d2)

\* what follows `await self.agent_service.process_message(user_id, text)`
handler_after_call(st, rs, e, ev, d1, d2) ==
    CASE ev.call.pc = "returned" -> handler_reply(st, rs, e, ev, ev.call.result, d1, d2)
      [] ev.call.pc = "raised" -> handler_except(st, rs, e, ev, d1)
      [] ev.call.pc = "awaiting" -> Handled(st, rs, "awaiting")

\* what a task wrote so far, with the messages that store `new` holds and
\* store `old` did not: per conversation id, in the order of the log
Wrote(wrote, old, new) ==
    LET grown == {c \in 1..Len(new.conversations) :
                    IF c > Len(old.conversations)
                    THEN new.conversations[c].messages # <<>>
                    ELSE Len(new.conversations[c].messages) >
                            Len(old.conversations[c].messages)}
        had(c) == IF c \in DOMAIN wrote THEN wrote[c] ELSE <<>>
        from(c) == IF c > Len(old.conversations) THEN 1
                   ELSE Len(old.conversations[c].messages) + 1
    IN  [c \in DOMAIN wrote \cup grown |->
            IF c \in grown
            THEN had(c) \o SubSeq(new.conversations[c].messages, from(c),
                                   Len(new.conversations[c].messages))
            ELSE had(c)]

\* a step of event e's task: `wrote` keeps which messages the task appended
HandlerStep(e, ev, h) ==
    /\ events' = [events EXCEPT ![e] =
                    [ev EXCEPT !.pc = h.pc, !.wrote = Wrote(@, TheStore, h.store)]]
    /\ replies' = h.replies
    /\ conversations' = h.store.conversations
    /\ user_conversations' = h.store.user_conversations
    /\ UNCHANGED <<router_vars, store_log, service_vars>>

\* POST /webhook with a text event: handle_text_message creates the task
webhook(user_id, text) ==
    /\ Len(events) < MaxEvents
    /\ events' = Append(events, [pc |-> "scheduled", user_id |-> user_id,
                                 text |-> text, conversation_id |-> 0,
                                 call |-> IdleReq, wrote |-> <<>>])
    /\ replies' = Append(replies, <<>>)
    /\ UNCHANGED <<router_vars, store_vars, service_vars>>

\* the task of event e runs from its start to its end or to its suspension
\* (each intermediate value is bound once: \E over a one-element set)
async_process_text_message(e, d1, d2) ==
    /\ e \in 1..Len(events)
    /\ events[e].pc = "scheduled"
    /\ \E g \in {get_active_conversation(TheStore, events[e].user_id)} :
       \E a \in {add_message(g.store, g.value, events[e].text, "user")} :
       \E call \in {process_message_begin(agents, events[e].user_id, events[e].text)} :
       \E ev \in {[events[e] EXCEPT !.conversation_id = g.value, !.call = call]} :
       \E h \in {handler_after_call(a.store, replies, e, ev, d1, d2)} :
          HandlerStep(e, ev, h)

\* the backend call of event e's task comes back and the task runs to its end
async_process_text_message_resume(e, backend, d1, d2) ==
    /\ e \in 1..Len(events)
    /\ events[e].pc = "awaiting"
    /\ \E call \in {process_message_resume(events[e].call, backend)} :
       \E ev \in {[events[e] EXCEPT !.call = call]} :
       \E h \in {handler_after_call(TheStore, replies, e, ev, d1, d2)} :
          HandlerStep(e, ev, h)

\* the texts of the events
HandlerMessages == {X, AgentPrefix \o X \o Sp \o X}

\* the service's registry with one more agent, whose process raises; the
\* default agent has come up with or without its backend client
HandlerRegistries ==
    {register_agent(AgentService_init, X, BaseAgent),
     register_agent(register_agent(AgentService_init, AGNO, ReadyAgnoAgent),
                    X, BaseAgent)}

HandlerInit ==
    /\ agents \in HandlerRegistries
    /\ api_key = TRUE
    /\ init = NoInit
    /\ req = IdleReq
    /\ StoreInit
    /\ HookInit
    /\ ServiceUp

\* what the backend call of a task does: it gives a text, or it raises
HandlerBackendOutcomes ==
    {[kind |-> "text", text |-> <<"[backend text 1]">>], [kind |-> "raise", text |-> <<>>]}

HandlerNext ==
    \/ \E u \in Users, m \in HandlerMessages : webhook(u, m)
    \/ \E e \in 1..MaxEvents, d1, d2 \in DeliveryOutcomes :
          async_process_text_message(e, d1, d2)
    \/ \E e \in 1..MaxEvents, b \in HandlerBackendOutcomes, d1, d2 \in DeliveryOutcomes :
          async_process_text_message_resume(e, b, d1, d2)

HandlerSpec == HandlerInit /\ [][HandlerNext]_vars

\* the handler under fair scheduling, on one user
LiveUsers == {"U1"}

\* a task runs on: from its start, or when its backend call has come back
TaskProgress ==
    \E e \in 1..MaxEvents, d1, d2 \in DeliveryOutcomes :
        \/ async_process_text_message(e, d1, d2)
        \/ \E b \in HandlerBackendOutcomes : async_process_text_message_resume(e, b, d1, d2)

FairHandlerNext ==
    \/ \E u \in LiveUsers, m \in HandlerMessages : webhook(u, m)
    \/ TaskProgress

\* the event loop runs the tasks it was given, and the backend calls the
\* executor was given come back
HandlerFairness == WF_vars(TaskProgress)

FairHandlerSpec == HandlerInit /\ [][FairHandlerNext]_vars /\ HandlerFairness

(***************************************************************************)
(* get_line_service: the service singleton of api/v1/linebot.py            *)
(*                                                                         *)
(* Every endpoint depends on get_line_service. The first request finds     *)
(* _line_service_instance None, assigns a new LineBotService to it and     *)
(* then awaits its initialize, which suspends in SimpleAgnoAgent.initialize *)
(* (run_in_executor); a request that arrives meanwhile finds the instance  *)
(* set. A request with its service calls process_message (POST             *)
(* /test/agent, and the webhook's task).                                   *)
(***************************************************************************)
MaxRequests == 2

NewRequest(pc) == [pc |-> pc, invoked |-> FALSE, initialized |-> FALSE]

\* get_line_service is entered for a new request and runs to its return or
\* to the suspension of initialize
get_line_service ==
    /\ Len(requests) < MaxRequests
    /\ IF line_service_instance # "None"
       THEN /\ requests' = Append(requests, NewRequest("has_service"))
            /\ UNCHANGED <<agents, init, line_service_instance, constructed>>
       ELSE /\ line_service_instance' = "LineBotService"
            /\ constructed' = constructed + 1
            /\ agents' = AgentService_init
            /\ init' = initialize_loop(AgentService_init, 1, <<>>)
            /\ requests' = Append(requests, NewRequest("in_initialize"))
    /\ UNCHANGED <<api_key, req, store_vars, hook_vars>>

\* get_line_service has returned the instance to request r: at once, or when
\* the initialize it awaited is over
HasService(r) ==
    \/ requests[r].pc = "has_service"
    \/ requests[r].pc = "in_initialize" /\ init.pc = "done"

\* request r's endpoint calls line_service.agent_service.process_message
test_agent_message(r, user_id, message) ==
    /\ r \in 1..Len(requests)
    /\ HasService(r)
    /\ req.pc # "awaiting"
    /\ req' = process_message_begin(agents, user_id, message)
    /\ requests' = [requests EXCEPT ![r] =
                      [pc |-> "routed", invoked |-> req'.invoked # <<>>,
                       initialized |-> init.pc = "done"]]
    /\ UNCHANGED <<agents, api_key, init, store_vars, hook_vars,
                   line_service_instance, constructed>>

\* the process starts with no service; the registry is made by its constructor
ServiceInit ==
    /\ agents = <<>>
    /\ api_key \in BOOLEAN
    /\ init = NoInit
    /\ req = IdleReq
    /\ StoreInit
    /\ HookInit
    /\ line_service_instance = "None"
    /\ constructed = 0
    /\ requests = <<>>

ServiceNext ==
    \/ get_line_service
    \/ \E o \in InitOutcomes : init_agno_thread(o)
    \/ initialize_resume
    \/ \E r \in 1..MaxRequests, u \in Users, m \in FewMessages :
          test_agent_message(r, u, m)
    \/ \E b \in BackendOutcomes : backend_returns(b)

ServiceSpec == ServiceInit /\ [][ServiceNext]_vars

(***************************************************************************)
(* Properties of the router and of the agents                              *)
(***************************************************************************)
Done(r) == r.pc \in {"returned", "raised"}

NoSpace(s) == \A i \in 1..Len(s) : s[i] # " "

IsCommand(message) == startswith(message, AgentPrefix)

\* the one invocation process_message(user_id, message) may make
Invocation(agent_id, user_id, message) ==
    <<[agent_id |-> agent_id, user_id |-> user_id, message |-> message]>>

\* the call req is process_message(u, "/agent a m"); m is then CommandRest(a)
IsCommandFor(a) == startswith(req.message, AgentPrefix \o a \o Sp)
CommandRest(a) == slice_from(req.message, PrefixLen + Len(a) + 1)

\* process_message(u, "/agent a m") ended as agents[a].process(u, m) ends, having
\* invoked a alone, once, with (u, m)
OverrideOutcome(a) ==
    LET m == CommandRest(a)
        inst == Lookup(agents, a)
        p == Agent_process(inst, req.user_id, m)
    IN  /\ req.invoked = Invocation(a, req.user_id, m)
        /\ CASE p.state = "returned" ->
                    req.pc = "returned" /\ req.result = p.response.content
             [] p.state = "raised" -> req.pc = "raised"
             [] p.state = "awaiting" ->
                    \/ req.pc = "awaiting"
                    \/ /\ req.pc = "returned"
                       /\ req.result = SimpleAgnoAgent_finish(req.backend).response.content

\* C1: process_message never propagates an exception: whatever the registry,
\* the user and the message, a call that ended has returned a string.
C1_NeverRaises == req.pc # "raised"

\* C2, as stated: for every registered agent id a and every m,
\* process_message(u, "/agent a m") ends as agents[a].process(u, m), a being the
\* only agent invoked, once, with (u, m).
C2_OverrideEveryId ==
    \A i \in 1..Len(agents) :
        (req.pc # "idle" /\ IsCommandFor(agents[i].id)) => OverrideOutcome(agents[i].id)

\* C2, amended: the same for every registered agent id a that contains no space.
C2_OverrideSpaceFreeId ==
    \A i \in 1..Len(agents) :
        (req.pc # "idle" /\ NoSpace(agents[i].id) /\ IsCommandFor(agents[i].id))
            => OverrideOutcome(agents[i].id)

\* a command to echo whose message is itself a command: one round of parsing
C2_Witness ==
    /\ Registered(agents, ECHO) /\ Registered(agents, AGNO)
    /\ Lookup(agents, ECHO) = EchoAgent
    /\ req.pc = "returned"
    /\ req.message = AgentPrefix \o ECHO \o Sp \o AgentPrefix \o X
    /\ req.result = EchoText \o AgentPrefix \o X
    /\ req.invoked = Invocation(ECHO, req.user_id, AgentPrefix \o X)

\* C3: a message that is no command goes to "agno" alone when "agno" is
\* registered (echo is not tried, whatever agno does), else to "echo" alone when
\* "echo" is registered, else the "no agents" text is returned and no agent runs.
C3_DefaultRouting ==
    (req.pc # "idle" /\ ~IsCommand(req.message)) =>
        IF Registered(agents, AGNO)
        THEN req.invoked = Invocation(AGNO, req.user_id, req.message)
        ELSE IF Registered(agents, ECHO)
             THEN req.invoked = Invocation(ECHO, req.user_id, req.message)
             ELSE /\ req.invoked = <<>>
                  /\ req.pc = "returned"
                  /\ req.result = NoAgentsText

\* the default agent raised, echo is registered and was not tried
C3_Witness ==
    /\ Registered(agents, AGNO) /\ Lookup(agents, AGNO) = BaseAgent
    /\ Registered(agents, ECHO) /\ Lookup(agents, ECHO) = EchoAgent
    /\ ~IsCommand(req.message)
    /\ req.pc = "returned"
    /\ req.result = RouterApology
    /\ req.invoked = Invocation(AGNO, req.user_id, req.message)

\* C6: SimpleAgnoAgent.process never raises: without a backend client it returns
\* the not-ready text with confidence 0.0; with one, the backend's text with
\* confidence 0.9 when the call succeeds and the apology with confidence 0.0
\* when the call raises or the response cannot be built.
C6_AgnoProcessTotal ==
    \A i \in 1..Len(agents) :
        (/\ agents[i].inst.cls = "SimpleAgnoAgent"
         /\ req.pc # "idle"
         /\ Len(req.invoked) = 1
         /\ req.invoked[1].agent_id = agents[i].id)
        => IF agents[i].inst.agent = "None"
           THEN /\ req.pc = "returned"
                /\ req.response = [content |-> NotReadyText, confidence |-> "0.0"]
           ELSE \/ req.pc = "awaiting"
                \/ /\ req.pc = "returned"
                   /\ req.backend.kind = "text"
                   /\ req.response = [content |-> req.backend.text, confidence |-> "0.9"]
                \/ /\ req.pc = "returned"
                   /\ req.backend.kind \in {"raise", "nonstr"}
                   /\ req.response = [content |-> AgentApology, confidence |-> "0.0"]

\* the backend answered with a content no AgentResponse can hold, in a command
\* (where the router catches nothing)
C6_Witness ==
    /\ Registered(agents, AGNO) /\ Lookup(agents, AGNO) = ReadyAgnoAgent
    /\ IsCommand(req.message)
    /\ req.invoked = Invocation(AGNO, req.user_id, X)
    /\ req.pc = "returned"
    /\ req.backend.kind = "nonstr"
    /\ req.response = [content |-> AgentApology, confidence |-> "0.0"]

\* the call req is process_message(u, "/agent x rest") with x the text up to
\* the first space, and x is not registered
UnknownAgentCommand(r, reg) ==
    /\ IsCommand(r.message)
    /\ \E k \in 1..Len(slice_from(r.message, PrefixLen)) :
          LET rem == slice_from(r.message, PrefixLen)
              x == SubSeq(rem, 1, k - 1)
          IN  rem[k] = " " /\ NoSpace(x) /\ ~Registered(reg, x)

UnknownAgentId(r) ==
    LET rem == slice_from(r.message, PrefixLen)
        k == CHOOSE j \in 1..Len(rem) : rem[j] = " " /\ NoSpace(SubSeq(rem, 1, j - 1))
    IN  SubSeq(rem, 1, k - 1)

\* C8: process_message(u, "/agent x rest") with x not registered returns the
\* "agent not found" text naming x and invokes no agent, and the call leaves the
\* registry and the conversation store as they were.
C8_UnknownAgentFrame ==
    /\ [](  (req.pc # "idle" /\ UnknownAgentCommand(req, agents))
              => /\ req.pc = "returned"
                 /\ req.result = NotFoundText \o UnknownAgentId(req)
                 /\ req.invoked = <<>>)
    /\ [][ (req'.pc # "idle" /\ req' # req /\ UnknownAgentCommand(req', agents))
              => UNCHANGED <<agents, conversations, user_conversations>> ]_vars

\* a command to an id that is not registered while echo and agno are
C8_Witness ==
    /\ Registered(agents, ECHO) /\ Registered(agents, AGNO)
    /\ ~Registered(agents, X)
    /\ req.message = AgentPrefix \o X \o Sp \o X
    /\ req.pc = "returned"
    /\ req.result = NotFoundText \o X
    /\ req.invoked = <<>>

HasSpace(s) == \E i \in 1..Len(s) : s[i] = " "

\* C9: a command whose remainder holds no space (the split gives one part) gets
\* the format-error text and no agent runs; a command whose remainder holds a
\* space (two parts, the id or the rest possibly empty) never gets that text.
\* The agents' own texts are taken not to be the router's format-error text.
C9_FormatError ==
    (req.pc # "idle" /\ IsCommand(req.message)) =>
        IF HasSpace(slice_from(req.message, PrefixLen))
        THEN ~(req.pc = "returned" /\ req.result = FormatErrorText)
        ELSE /\ req.pc = "returned"
             /\ req.result = FormatErrorText
             /\ req.invoked = <<>>

\* a command with an empty agent id and an empty rest: two parts, no format error
C9_Witness ==
    /\ req.message = AgentPrefix \o Sp
    /\ req.pc = "returned"
    /\ req.result = NotFoundText
    /\ ~Registered(agents, <<>>)

\* a command with one part only
C9_WitnessOnePart ==
    /\ req.message = AgentPrefix \o ECHO
    /\ Registered(agents, ECHO)
    /\ req.pc = "returned"
    /\ req.result = FormatErrorText

(***************************************************************************)
(* Properties of initialize and of the agents' readiness                   *)
(***************************************************************************)
RegisteredIds == [i \in 1..Len(agents) |-> agents[i].id]

\* C7: AgentService.initialize calls initialize on every registered agent, once
\* each and in registration order: it is never cut short, and an agent whose own
\* initialize failed (it stays without a backend client) does not keep the
\* agents registered after it from being initialized.
C7_InitializeAll ==
    /\ init.pc # "raised"
    /\ init.pc = "done" => init.called = RegisteredIds
    /\ init.pc \in {"in_executor", "thread_done"} =>
            init.called = SubSeq(RegisteredIds, 1, init.at)

\* initialize is over, the default agent failed to get its client, and the
\* agent registered after it was initialized
C7_Witness ==
    /\ init.pc = "done"
    /\ Len(agents) = 3
    /\ agents[2] = [id |-> AGNO, inst |-> SimpleAgnoAgent]
    /\ api_key
    /\ agents[3].id = X
    /\ init.called = <<ECHO, AGNO, X>>

SimpleAgnoAgents == {i \in 1..Len(agents) : agents[i].inst.cls = "SimpleAgnoAgent"}

\* C10: readiness changes in initialize only: a step of process_message (its
\* call, or the return of its backend call, failed or not) leaves every agent's
\* readiness as it was, and every change of readiness is a step of initialize;
\* without an API key no SimpleAgnoAgent is ever ready.
C10_ReadinessOnlyInInitialize ==
    /\ [](~api_key => \A i \in SimpleAgnoAgents : agents[i].inst.agent = "None")
    /\ [][req' # req => agents' = agents]_vars
    /\ [][agents' # agents =>
            /\ init.pc = "in_executor" /\ init'.pc = "thread_done"
            /\ \A i \in 1..Len(agents) : i # init.at => agents'[i] = agents[i]]_vars

\* a backend call failed and the agent is as ready as before
C10_Witness ==
    /\ req.pc = "returned"
    /\ req.backend.kind = "raise"
    /\ req.result = AgentApology
    /\ Len(req.invoked) = 1
    /\ Lookup(agents, req.invoked[1].agent_id) = ReadyAgnoAgent
    /\ init.pc = "done"

\* initialized without an API key, the agent answered a call with "not ready"
C10_WitnessNoKey ==
    /\ ~api_key
    /\ init.pc = "done"
    /\ req.pc = "returned"
    /\ req.invoked = Invocation(AGNO, req.user_id, X)
    /\ req.result = NotReadyText

(***************************************************************************)
(* Properties of the conversation store                                    *)
(***************************************************************************)
\* the conversations of a user that are active
ActiveOf(user_id) ==
    {id \in 1..Len(conversations) :
        conversations[id].user_id = user_id /\ conversations[id].status = "active"}

\* C5, as stated: after any sequence of create_conversation,
\* get_active_conversation, add_message and close_conversation calls, each user
\* has at most one active conversation.
C5_OneActivePerUser == \A u \in Users : Cardinality(ActiveOf(u)) <= 1

\* C5, amended: each user has at most one active conversation, unless
\* create_conversation was called for that user while the user had an active
\* conversation (get_active_conversation never does that).
C5_OneActiveUnlessForced ==
    \A u \in Users : u \notin store_log.forced => Cardinality(ActiveOf(u)) <= 1

\* a user's conversation was closed and get_active_conversation made the user a
\* second one
C5_Witness ==
    /\ Len(conversations) = 2
    /\ store_log.forced = {}
    /\ store_log.op = "get_active_conversation"
    /\ store_log.value = 2
    /\ conversations[1].status = "closed"
    /\ conversations[1].user_id = conversations[2].user_id
    /\ conversations[2].status = "active"

\* the log that the add_message calls on conversation c which gave a Message
\* make, in call order
LogOfCalls(c) ==
    IF c \in DOMAIN store_log.added
    THEN [i \in 1..Len(store_log.added[c]) |->
            NewMessage(c, store_log.added[c][i].content, store_log.added[c][i].sender_type)]
    ELSE <<>>

IsPrefix(s, t) == Len(s) <= Len(t) /\ \A i \in 1..Len(s) : s[i] = t[i]

\* C12: every conversation's log is the sequence of the add_message calls on
\* its id that gave a Message, in call order, with their content, sender type
\* and conversation id; every operation leaves each existing log as a prefix
\* of what it becomes, and a log changes only by an add_message on its own id.
C12_AppendOnlyLog ==
    /\ [](\A c \in 1..Len(conversations) : conversations[c].messages = LogOfCalls(c))
    /\ [][\A c \in 1..Len(conversations) :
            /\ c \in 1..Len(conversations')
            /\ IsPrefix(conversations[c].messages, conversations'[c].messages)
            /\ conversations'[c].messages # conversations[c].messages =>
                  /\ store_log'.op = "add_message"
                  /\ store_log'.conversation_id = c]_vars

\* a log of two different messages, beside another conversation
C12_Witness ==
    /\ Len(conversations) = 2
    /\ \E c \in 1..Len(conversations) :
          /\ Len(conversations[c].messages) = 2
          /\ conversations[c].messages[1] # conversations[c].messages[2]

\* the ids of the user's conversations that are active, by the conversations'
\* own fields (ids grow in creation order)
ActiveIds(user_id) ==
    {c \in 1..Len(conversations) :
        conversations[c].user_id = user_id /\ conversations[c].status = "active"}

StoreUnchanged == UNCHANGED <<conversations, user_conversations>>

\* get_active_conversation(u) with an active conversation of u: the newest one,
\* and nothing changes; with none: one new active conversation of u, empty
GetActiveStep ==
    store_log'.op = "get_active_conversation" =>
        LET u == store_log'.user_id
        IN  IF ActiveIds(u) # {}
            THEN /\ store_log'.value = Max(ActiveIds(u))
                 /\ StoreUnchanged
            ELSE /\ Len(conversations') = Len(conversations) + 1
                 /\ store_log'.value = Len(conversations')
                 /\ conversations' = Append(conversations, NewConversation(u))
                 /\ u \in DOMAIN user_conversations'
                 /\ user_conversations'[u][Len(user_conversations'[u])] = store_log'.value
                 /\ \A v \in DOMAIN user_conversations :
                       /\ v \in DOMAIN user_conversations'
                       /\ IsPrefix(user_conversations[v], user_conversations'[v])

\* close_conversation(c) on a known id: closed, with an end time
CloseStep ==
    (store_log'.op = "close_conversation" /\ store_log'.value = 1) =>
        /\ store_log'.conversation_id \in 1..Len(conversations')
        /\ conversations'[store_log'.conversation_id].status = "closed"
        /\ conversations'[store_log'.conversation_id].end_time # "None"

\* a closed conversation stays closed and is not what get_active_conversation
\* returns
ClosedForGood ==
    \A c \in 1..Len(conversations) :
        conversations[c].status = "closed" =>
            /\ c \in 1..Len(conversations')
            /\ conversations'[c].status = "closed"
            /\ store_log'.op = "get_active_conversation" => store_log'.value # c

\* C13: get_active_conversation(u) returns u's most recently created active
\* conversation and creates nothing when there is one; else it creates exactly
\* one new, active, empty conversation of u; close_conversation(c) leaves c
\* closed with an end time, and c is never again returned by
\* get_active_conversation.
C13_GetActiveAndClose == [][GetActiveStep /\ CloseStep /\ ClosedForGood]_vars

\* get_active_conversation has returned the newer of a user's two active
\* conversations
C13_Witness ==
    /\ store_log.op = "get_active_conversation"
    /\ store_log.value = 2
    /\ ActiveIds(store_log.user_id) = {1, 2}

\* C14: a call get_active_conversation(u) that directly follows a call
\* get_active_conversation(u) returns the same id and leaves the store
\* unchanged.
C14_GetActiveIdempotent ==
    [][(/\ store_log.op = "get_active_conversation"
        /\ store_log'.op = "get_active_conversation"
        /\ store_log'.user_id = store_log.user_id)
       => (store_log'.value = store_log.value /\ StoreUnchanged)]_vars

\* get_active_conversation has made a conversation for a user whose earlier
\* one is closed; a second call finds the store in this state and leaves it so
C14_Witness ==
    /\ store_log.op = "get_active_conversation"
    /\ store_log.value = 2
    /\ conversations[1].user_id = store_log.user_id
    /\ conversations[1].status = "closed"
    /\ conversations[2].messages = <<>>

\* C15: add_message on an id that no conversation has returns None, raises
\* nothing and leaves the store as it was.
C15_AddMessageUnknownId ==
    [][(/\ store_log'.op = "add_message"
        /\ store_log'.conversation_id \notin 1..Len(conversations))
       => (/\ store_log'.value = 0
           /\ ~store_log'.raised
           /\ StoreUnchanged)]_vars

\* add_message was called on an unknown id, in a store that holds a
\* conversation with a message
C15_Witness ==
    /\ store_log.op = "add_message"
    /\ store_log.conversation_id \notin 1..Len(conversations)
    /\ store_log.value = 0
    /\ \E c \in 1..Len(conversations) : conversations[c].messages # <<>>

(***************************************************************************)
(* Properties of the webhook handler                                       *)
(***************************************************************************)
RepliedTo(e) == e \in 1..Len(replies) /\ replies[e] # <<>>

\* C4: every text event received gets a reply text handed to the delivery
\* client for its reply token, whatever the agent does (answers, is not ready,
\* raises), and process_message invokes an agent at most once for it.
C4_AlwaysRepliesOnce ==
    /\ \A e \in 1..MaxEvents : (e \in 1..Len(events)) ~> RepliedTo(e)
    /\ [](\A e \in 1..Len(events) : Len(events[e].call.invoked) <= 1)
    /\ [](\A e \in 1..Len(events) :
            events[e].pc \in {"done", "failed"} => RepliedTo(e))

\* the agent of a command raised, and the handler replied with its apology
C4_Witness ==
    \E e \in 1..Len(events) :
        /\ events[e].pc = "done"
        /\ events[e].call.pc = "raised"
        /\ Len(events[e].call.invoked) = 1
        /\ Len(replies[e]) = 1
        /\ replies[e][1].text = HandlerApology
        /\ replies[e][1].outcome = "ok"

HandledWithoutError(e) ==
    /\ events[e].pc = "done"
    /\ events[e].call.pc = "returned"
    /\ Len(replies[e]) = 1
    /\ replies[e][1].outcome = "ok"

\* C11: for an event handled without error (process_message returned and the
\* reply was delivered), the task appended exactly the user's message and then
\* the response, as "user" and "bot", to the conversation that is the user's
\* active one, whose log holds them; when the delivery client was called the
\* log's last entry was the response; and the text delivered is the bot
\* message's.
C11_RecordedThenDelivered ==
    \A e \in 1..Len(events) :
        HandledWithoutError(e) =>
            LET c == events[e].conversation_id
                r == replies[e][1]
                user == NewMessage(c, events[e].text, "user")
                bot == NewMessage(c, r.text, "bot")
            IN  /\ c \in 1..Len(conversations)
                /\ conversations[c].user_id = events[e].user_id
                /\ get_active_conversation(TheStore, events[e].user_id) =
                      Result(TheStore, c, FALSE)
                /\ r.text = events[e].call.result
                /\ events[e].wrote = (c :> <<user, bot>>)
                /\ r.logged = {bot}
                /\ \E i, n \in 1..Len(conversations[c].messages) :
                      /\ i < n
                      /\ conversations[c].messages[i] = user
                      /\ conversations[c].messages[n] = bot

\* an event handled without error whose response came from the backend, in a
\* conversation that another event's task wrote to in between
C11_Witness ==
    \E e \in 1..Len(events) :
        /\ HandledWithoutError(e)
        /\ events[e].call.result \in BackendTexts
        /\ \E i \in 2..Len(conversations[events[e].conversation_id].messages) :
              /\ conversations[events[e].conversation_id].messages[i - 1].sender_type = "bot"
              /\ conversations[events[e].conversation_id].messages[i] =
                    NewMessage(events[e].conversation_id, replies[e][1].text, "bot")

\* the events of a user whose tasks have started
StartedOf(user_id) ==
    {e \in 1..Len(events) : events[e].user_id = user_id /\ events[e].pc # "scheduled"}

ConversationsOf(user_id) ==
    {c \in 1..Len(conversations) : conversations[c].user_id = user_id}

Finished(e) == events[e].pc \in {"done", "failed"}

\* how many messages event e's task appended to conversation c, and how many
\* of them with the given sender type
WroteTo(e, c) == IF c \in DOMAIN events[e].wrote THEN Len(events[e].wrote[c]) ELSE 0

WroteAs(e, c, sender_type) ==
    IF c \in DOMAIN events[e].wrote
    THEN Cardinality({i \in 1..Len(events[e].wrote[c]) :
                        events[e].wrote[c][i].sender_type = sender_type})
    ELSE 0

RECURSIVE WroteUpTo(_, _)
WroteUpTo(n, c) == IF n = 0 THEN 0 ELSE WroteTo(n, c) + WroteUpTo(n - 1, c)

\* the task went through its except block, and the apology was delivered
ExceptTaken(e) ==
    /\ Finished(e)
    /\ events[e].call.pc = "raised" \/ replies[e][1].outcome # "ok"

ApologyDelivered(e) == ExceptTaken(e) /\ replies[e][Len(replies[e])].outcome = "ok"

\* what holds of each started event e of user u whatever its bot messages are:
\* u has one conversation, whose log holds what the tasks wrote and nothing
\* else; all that e's task wrote went to it: first one user message, e's
\* text, then bot messages only
OneConversationUserFirst(u, e) ==
    /\ Cardinality(ConversationsOf(u)) = 1
    /\ DOMAIN events[e].wrote = ConversationsOf(u)
    /\ \A c \in ConversationsOf(u) :
          /\ Len(conversations[c].messages) = WroteUpTo(Len(events), c)
          /\ \A i \in 1..Len(events[e].wrote[c]) :
                \E k \in 1..Len(conversations[c].messages) :
                    conversations[c].messages[k] = events[e].wrote[c][i]
          /\ events[e].wrote[c][1] = NewMessage(c, events[e].text, "user")
          /\ WroteAs(e, c, "user") = 1
          /\ WroteAs(e, c, "bot") = Len(events[e].wrote[c]) - 1

\* C16 as stated: under any interleaving of the tasks, each user has exactly
\* one conversation, which holds all that the user's events wrote; each event
\* wrote exactly one user message, and once it is over exactly one bot
\* message, after its user message.
C16_OneUserOneBotPerEvent ==
    \A u \in Users : \A e \in StartedOf(u) :
        /\ OneConversationUserFirst(u, e)
        /\ \A c \in ConversationsOf(u) :
              WroteAs(e, c, "bot") = IF Finished(e) THEN 1 ELSE 0

\* C16 amended: as above, but an event's bot messages are the response, if
\* process_message returned, and the apology, if the except block delivered
\* it: one when every reply_message call succeeds, else none, one or two.
C16_BotPerOutcome ==
    \A u \in Users : \A e \in StartedOf(u) :
        /\ OneConversationUserFirst(u, e)
        /\ \A c \in ConversationsOf(u) :
              /\ WroteAs(e, c, "bot") =
                    (IF Finished(e) /\ events[e].call.pc = "returned" THEN 1 ELSE 0)
                    + (IF ApologyDelivered(e) THEN 1 ELSE 0)
              /\ (Finished(e) /\ \A i \in 1..Len(replies[e]) : replies[e][i].outcome = "ok")
                    => WroteAs(e, c, "bot") = 1

\* two events of one user, both over with every reply delivered, whose tasks
\* interleaved: the log holds both user messages, then both bot messages
C16_Witness ==
    \E e1, e2 \in 1..Len(events) :
        /\ e1 # e2
        /\ events[e1].user_id = events[e2].user_id
        /\ events[e1].pc = "done" /\ events[e2].pc = "done"
        /\ \A i \in 1..Len(replies[e1]) : replies[e1][i].outcome = "ok"
        /\ \A i \in 1..Len(replies[e2]) : replies[e2][i].outcome = "ok"
        /\ \E c \in 1..Len(conversations) :
              /\ conversations[c].user_id = events[e1].user_id
              /\ [i \in 1..Len(conversations[c].messages) |->
                    conversations[c].messages[i].sender_type] =
                        <<"user", "user", "bot", "bot">>

(***************************************************************************)
(* Properties of the service singleton                                     *)
(***************************************************************************)
\* C17: at most one LineBotService is constructed, and no request has a
\* message routed to an agent before AgentService.initialize is over on the
\* instance.
C17_OneServiceInitializedFirst ==
    /\ constructed <= 1
    /\ \A r \in 1..Len(requests) :
          (requests[r].pc = "routed" /\ requests[r].invoked) => requests[r].initialized

====
